---- MODULE Spec2Model ----
(***************************************************************************)
(* PDFModule: the /input request handler (app/api/routes.py) and the       *)
(* document analysis pipeline (app/pipeline/pdf_pipeline.py).              *)
(*                                                                         *)
(* Spec      : concurrent /input requests, each running the handler and    *)
(*             PDFAnalysisPipeline.process_document step by step. The      *)
(*             steps are the awaits and library calls of the code; the     *)
(*             text a backend returns is kept symbolic (what it was        *)
(*             generated from).                                            *)
(* SpecParse : the return path of the four extractors on concrete reply    *)
(*             texts (strings are sequences of characters).                *)
(***************************************************************************)
EXTENDS Naturals, Sequences, FiniteSets

VARIABLES
    pc,             \* per request: position in the handler / pipeline
    step,           \* per request: which of the four extractor calls (lines 34-39) is current
    pages,          \* per request: the loaded pages (each page: its number of text windows)
    vectorstore,    \* per request: the local variable `vectorstore` of process_document
    retrieved,      \* per request, per aspect: what similarity_search returned
    results,        \* per request, per aspect: the extractor's return value
    genCalls,       \* per request, per aspect: number of llm_provider.generate calls
    embedCalls,     \* per request: number of embedding backend calls
    buildAttempted, \* per request: FAISS.from_texts has been called
    failedCalls,    \* per request: the backend calls that raised (history)
    raised,         \* per request: the exception process_document / the handler body raised
    metadata,       \* per request: the DocumentMetadata returned by process_document
    backendStatus,  \* per request: status of the downstream answer to the forwarding POST
    response,       \* per request: the HTTP response of /input
    raw,            \* SpecParse: the text llm_provider.generate returned
    pAspect,        \* SpecParse: the extractor that is returning
    out             \* SpecParse: the extractor's return value (a list of strings)

vars == <<pc, step, pages, vectorstore, retrieved, results, genCalls, embedCalls,
          buildAttempted, failedCalls, raised, metadata, backendStatus, response,
          raw, pAspect, out>>

pipeVars == <<pc, step, pages, vectorstore, retrieved, results, genCalls, embedCalls,
              buildAttempted, failedCalls, raised, metadata, backendStatus, response>>

parseVars == <<raw, pAspect, out>>

(***************************************************************************)
(* Bounds                                                                  *)
(***************************************************************************)
MaxPages == 2

MaxChunksPerPage == 1

MaxLen == 3

\* The concurrent /input requests.
Reqs == {"r1", "r2"}

\* Characters of a reply text: a letter, the comma, a blank, a line break.
Chars == {"a", ",", " ", "\n"}

\* Statuses the downstream service may answer the forwarding POST with.
BackendStatuses == {200, 399, 400, 404, 503}

(***************************************************************************)
(* Strings                                                                 *)
(***************************************************************************)
RECURSIVE StringsOfLen(_)
StringsOfLen(n) ==
    IF n = 0 THEN {<<>>}
    ELSE {Append(s, c) : s \in StringsOfLen(n - 1), c \in Chars}

Strings == UNION {StringsOfLen(n) : n \in 0..MaxLen}

Whitespace == {" ", "\n"}

\* str.strip(): leading and trailing whitespace removed.
RECURSIVE LStrip(_)
LStrip(s) ==
    IF s # <<>> /\ Head(s) \in Whitespace THEN LStrip(Tail(s)) ELSE s

RECURSIVE RStrip(_)
RStrip(s) ==
    IF s # <<>> /\ s[Len(s)] \in Whitespace
    THEN RStrip(SubSeq(s, 1, Len(s) - 1))
    ELSE s

Strip(s) == RStrip(LStrip(s))

\* str.split(sep): the pieces between separators, empty pieces kept, at least one piece.
RECURSIVE SplitFrom(_, _, _, _)
SplitFrom(s, sep, i, cur) ==
    IF i > Len(s) THEN <<cur>>
    ELSE IF s[i] = sep THEN <<cur>> \o SplitFrom(s, sep, i + 1, <<>>)
    ELSE SplitFrom(s, sep, i + 1, Append(cur, s[i]))

Split(s, sep) == SplitFrom(s, sep, 1, <<>>)

(***************************************************************************)
(* Values of the pipeline                                                  *)
(***************************************************************************)
\* The four extractor calls, in the order process_document awaits them.
AspectOrder == <<"title", "summary", "short_summary", "tags">>

Aspects == {AspectOrder[i] : i \in 1..Len(AspectOrder)}

\* k of each extractor's similarity_search.
K(a) ==
    CASE a = "title" -> 2
      [] a = "summary" -> 5
      [] a = "short_summary" -> 3
      [] a = "tags" -> 3

Min(x, y) == IF x <= y THEN x ELSE y

\* A document as loaded: a list of pages, each page given by the number of
\* text windows its content splits into (0: a page with empty text).
PageLists == UNION {[1..n -> 0..MaxChunksPerPage] : n \in 0..MaxPages}

\* text_splitter.split_text(page.page_content): the page's windows, in order.
SplitText(r, p, n) == [i \in 1..n |-> [doc |-> r, page |-> p, idx |-> i]]

\* The loop filling all_text_chunks: pages in order, each page's windows in order.
RECURSIVE AllTextChunks(_, _, _)
AllTextChunks(r, pgs, p) ==
    IF p > Len(pgs) THEN <<>>
    ELSE SplitText(r, p, pgs[p]) \o AllTextChunks(r, pgs, p + 1)

NoIndex == [state |-> "unbound", owner |-> "", docs |-> <<>>]

\* A mutant of FromTexts: the build is started but not completed when the call returns.
FromTextsDeferred(r, texts) == [state |-> "building", owner |-> r, docs |-> <<>>]

\* FAISS.from_texts(texts, embedding): a new index holding the texts, built when
\* the call returns.
FromTexts(r, texts) == [state |-> "built", owner |-> r, docs |-> texts]

NoRetrieval == [state |-> "none", index |-> "", indexState |-> "", docs |-> <<>>]

\* vectorstore.similarity_search(query, k): the k best texts of the index it is
\* called on, all of them when the index holds fewer. The ranking is the
\* embedding's; the model ranks by chunk order.
SimilaritySearch(vs, k) ==
    [state |-> "done", index |-> vs.owner, indexState |-> vs.state,
     docs |-> SubSeq(vs.docs, 1, Min(k, Len(vs.docs)))]

NoResult == [state |-> "none", aspect |-> "", shape |-> "", context |-> <<>>]

\* What an extractor returns: the reply generated for its prompt (the aspect's
\* template with the retrieved texts substituted), a str for title, summary
\* and short summary, the list parsed from it for tags.
ExtractorReturn(a, context) ==
    [state |-> "value", aspect |-> a,
     shape |-> IF a = "tags" THEN "list" ELSE "str", context |-> context]

NoMetadata ==
    [state |-> "none", title |-> NoResult, summary |-> NoResult,
     short_summary |-> NoResult, tags |-> NoResult]

\* DocumentMetadata(title=title, summary=summary, short_summary=..., tags=tags)
DocumentMetadata(res) ==
    [state |-> "returned", title |-> res["title"], summary |-> res["summary"],
     short_summary |-> res["short_summary"], tags |-> res["tags"]]

\* Exceptions: the type, the status of an HTTPException, and the aspect the
\* pipeline tagged the exception with ("" when it carries none).
NoException == [type |-> "none", status |-> 0, aspect |-> ""]

Exception(t) == [type |-> t, status |-> 0, aspect |-> ""]

HTTPException(s) == [type |-> "HTTPException", status |-> s, aspect |-> ""]

NoResponse == [status |-> 0, body |-> ""]

\* The except clauses of the handler: aiohttp.ClientError becomes 502, every
\* other Exception (an HTTPException raised inside the try block included)
\* becomes 500 with detail str(e).
HandleException(e) ==
    IF e.type = "ClientError"
    THEN [status |-> 502, body |-> "detail"]
    ELSE [status |-> 500, body |-> "detail"]

\* A mutant of VectorstoreOf: one index shared by all requests.
VectorstoreShared(r) ==
    LET built == {q \in Reqs : vectorstore[q].state = "built"}
    IN  IF built = {} THEN vectorstore[r]
        ELSE vectorstore[CHOOSE q \in built : TRUE]

\* The index an extractor of request r queries: the local variable
\* `vectorstore` of that request's process_document call.
VectorstoreOf(r) == vectorstore[r]

\* A mutant of AfterGenerate: a failed generation call is swallowed and the
\* pipeline goes on.
AfterGenerateSwallow(ok, i) ==
    IF i < Len(AspectOrder)
    THEN [pc |-> "query", step |-> i + 1]
    ELSE [pc |-> "assemble", step |-> i]

\* A mutant of AfterGenerate: a failed generation call is issued again.
AfterGenerateRetry(ok, i) ==
    IF ~ok THEN [pc |-> "generate", step |-> i]
    ELSE IF i < Len(AspectOrder)
    THEN [pc |-> "query", step |-> i + 1]
    ELSE [pc |-> "assemble", step |-> i]

\* Where process_document goes after `await self.llm_provider.generate(prompt)`
\* of extractor i: the exception propagates out of process_document, or the
\* next extractor is called, or (after tags) the record is assembled.
AfterGenerate(ok, i) ==
    IF ~ok THEN [pc |-> "done", step |-> i]
    ELSE IF i < Len(AspectOrder)
    THEN [pc |-> "query", step |-> i + 1]
    ELSE [pc |-> "assemble", step |-> i]

\* The extractors whose coroutine has been started in request r.
Launched(r) ==
    {AspectOrder[i] : i \in {j \in 1..Len(AspectOrder) :
        j < step[r] \/ (j = step[r] /\ pc[r] \in {"generate", "assemble", "forward"})}}

\* The extractors of request r whose generation call is awaited right now.
InFlight(r) == IF pc[r] = "generate" THEN {AspectOrder[step[r]]} ELSE {}

(***************************************************************************)
(* The /input handler and the pipeline                                     *)
(***************************************************************************)
Init ==
    /\ pc = [r \in Reqs |-> "idle"]
    /\ step = [r \in Reqs |-> 1]
    /\ pages = [r \in Reqs |-> <<>>]
    /\ vectorstore = [r \in Reqs |-> NoIndex]
    /\ retrieved = [r \in Reqs |-> [a \in Aspects |-> NoRetrieval]]
    /\ results = [r \in Reqs |-> [a \in Aspects |-> NoResult]]
    /\ genCalls = [r \in Reqs |-> [a \in Aspects |-> 0]]
    /\ embedCalls = [r \in Reqs |-> 0]
    /\ buildAttempted = [r \in Reqs |-> FALSE]
    /\ failedCalls = [r \in Reqs |-> {}]
    /\ raised = [r \in Reqs |-> NoException]
    /\ metadata = [r \in Reqs |-> NoMetadata]
    /\ backendStatus = [r \in Reqs |-> 0]
    /\ response = [r \in Reqs |-> NoResponse]
    /\ raw = <<>>
    /\ pAspect = ""
    /\ out = <<>>

\* An exception e leaves the try block of the handler: the except clauses
\* turn it into the response.
RaiseInTry(r, e) ==
    /\ raised' = [raised EXCEPT ![r] = e]
    /\ response' = [response EXCEPT ![r] = HandleException(e)]

\* POST /input up to the call of pipeline.process_document: the filename
\* check (outside the try block), the temporary file, the PDF loader.
Receive(r) ==
    /\ pc[r] = "idle"
    /\ \E kind \in {"notpdf", "corrupt", "pdf"} :
         \/ /\ kind = "notpdf"
            /\ raised' = [raised EXCEPT ![r] = HTTPException(400)]
            /\ response' = [response EXCEPT ![r] = [status |-> 400, body |-> "detail"]]
            /\ pc' = [pc EXCEPT ![r] = "done"]
            /\ UNCHANGED pages
         \/ /\ kind = "corrupt"
            /\ RaiseInTry(r, Exception("LoaderError"))
            /\ pc' = [pc EXCEPT ![r] = "done"]
            /\ UNCHANGED pages
         \/ /\ kind = "pdf"
            /\ \E pgs \in PageLists : pages' = [pages EXCEPT ![r] = pgs]
            /\ pc' = [pc EXCEPT ![r] = "build"]
            /\ UNCHANGED <<raised, response>>
    /\ UNCHANGED <<step, vectorstore, retrieved, results, genCalls, embedCalls,
                   buildAttempted, failedCalls, metadata, backendStatus>>
    /\ UNCHANGED parseVars

\* process_document, lines 27-31: split every page, build the index. With no
\* text at all FAISS.from_texts is still called: it embeds nothing (no backend
\* call) and raises IndexError reading the first embedding.
BuildIndex(r) ==
    /\ pc[r] = "build"
    /\ buildAttempted' = [buildAttempted EXCEPT ![r] = TRUE]
    /\ LET texts == AllTextChunks(r, pages[r], 1)
       IN  IF texts = <<>>
           THEN /\ RaiseInTry(r, Exception("IndexError"))
                /\ pc' = [pc EXCEPT ![r] = "done"]
                /\ UNCHANGED <<vectorstore, embedCalls, failedCalls>>
           ELSE \E ok \in BOOLEAN :
                  \/ /\ ok
                     /\ vectorstore' = [vectorstore EXCEPT ![r] = FromTexts(r, texts)]
                     /\ embedCalls' = [embedCalls EXCEPT ![r] = @ + Len(texts)]
                     /\ pc' = [pc EXCEPT ![r] = "query"]
                     /\ UNCHANGED <<raised, response, failedCalls>>
                  \/ /\ ~ok
                     /\ embedCalls' = [embedCalls EXCEPT ![r] = @ + 1]
                     /\ failedCalls' = [failedCalls EXCEPT ![r] =
                            @ \cup {[stage |-> "build", aspect |-> ""]}]
                     /\ RaiseInTry(r, Exception("BackendError"))
                     /\ pc' = [pc EXCEPT ![r] = "done"]
                     /\ UNCHANGED vectorstore
    /\ UNCHANGED <<step, pages, retrieved, results, genCalls, metadata, backendStatus>>
    /\ UNCHANGED parseVars

\* The call of the current extractor up to its generation call: the argument
\* pages[0].page_content is evaluated, then similarity_search embeds the query
\* and returns the best texts.
Query(r) ==
    /\ pc[r] = "query"
    /\ LET a == AspectOrder[step[r]]
       IN  IF pages[r] = <<>>
           THEN /\ RaiseInTry(r, Exception("IndexError"))
                /\ pc' = [pc EXCEPT ![r] = "done"]
                /\ UNCHANGED <<retrieved, embedCalls, failedCalls>>
           ELSE /\ embedCalls' = [embedCalls EXCEPT ![r] = @ + 1]
                /\ \E ok \in BOOLEAN :
                     \/ /\ ok
                        /\ retrieved' = [retrieved EXCEPT ![r][a] =
                               SimilaritySearch(VectorstoreOf(r), K(a))]
                        /\ pc' = [pc EXCEPT ![r] = "generate"]
                        /\ UNCHANGED <<raised, response, failedCalls>>
                     \/ /\ ~ok
                        /\ failedCalls' = [failedCalls EXCEPT ![r] =
                               @ \cup {[stage |-> "retrieval", aspect |-> a]}]
                        /\ RaiseInTry(r, Exception("BackendError"))
                        /\ pc' = [pc EXCEPT ![r] = "done"]
                        /\ UNCHANGED retrieved
    /\ UNCHANGED <<step, pages, vectorstore, results, genCalls, buildAttempted,
                   metadata, backendStatus>>
    /\ UNCHANGED parseVars

\* `await self.llm_provider.generate(prompt)` of the current extractor and its
\* return: the reply becomes the extractor's value, or the backend's exception
\* propagates unchanged.
Generate(r) ==
    /\ pc[r] = "generate"
    /\ LET a == AspectOrder[step[r]]
       IN  /\ genCalls' = [genCalls EXCEPT ![r][a] = @ + 1]
           /\ \E ok \in BOOLEAN :
                /\ pc' = [pc EXCEPT ![r] = AfterGenerate(ok, step[r]).pc]
                /\ step' = [step EXCEPT ![r] = AfterGenerate(ok, step[r]).step]
                /\ \/ /\ ok
                      /\ results' = [results EXCEPT ![r][a] =
                             ExtractorReturn(a, retrieved[r][a].docs)]
                      /\ UNCHANGED <<raised, response, failedCalls>>
                   \/ /\ ~ok
                      /\ failedCalls' = [failedCalls EXCEPT ![r] =
                             @ \cup {[stage |-> "generation", aspect |-> a]}]
                      /\ RaiseInTry(r, Exception("BackendError"))
                      /\ UNCHANGED results
    /\ UNCHANGED <<pages, vectorstore, retrieved, embedCalls, buildAttempted,
                   metadata, backendStatus>>
    /\ UNCHANGED parseVars

\* process_document, lines 41-43: the record is assembled and returned.
Assemble(r) ==
    /\ pc[r] = "assemble"
    /\ metadata' = [metadata EXCEPT ![r] = DocumentMetadata(results[r])]
    /\ pc' = [pc EXCEPT ![r] = "forward"]
    /\ UNCHANGED <<step, pages, vectorstore, retrieved, results, genCalls, embedCalls,
                   buildAttempted, failedCalls, raised, backendStatus, response>>
    /\ UNCHANGED parseVars

\* The forwarding POST and the end of the handler: a connection error, or an
\* answer with some status; a status >= 400 raises HTTPException(status)
\* inside the try block.
Forward(r) ==
    /\ pc[r] = "forward"
    /\ \/ /\ RaiseInTry(r, Exception("ClientError"))
          /\ UNCHANGED backendStatus
       \/ \E s \in BackendStatuses :
            /\ backendStatus' = [backendStatus EXCEPT ![r] = s]
            /\ IF s >= 400
               THEN RaiseInTry(r, HTTPException(s))
               ELSE /\ response' = [response EXCEPT ![r] =
                           [status |-> 200, body |-> "metadata"]]
                    /\ UNCHANGED raised
    /\ pc' = [pc EXCEPT ![r] = "done"]
    /\ UNCHANGED <<step, pages, vectorstore, retrieved, results, genCalls, embedCalls,
                   buildAttempted, failedCalls, metadata>>
    /\ UNCHANGED parseVars

Next ==
    \E r \in Reqs :
        \/ Receive(r)
        \/ BuildIndex(r)
        \/ Query(r)
        \/ Generate(r)
        \/ Assemble(r)
        \/ Forward(r)

Spec == Init /\ [][Next]_vars

(***************************************************************************)
(* The return path of the extractors, on concrete reply texts              *)
(***************************************************************************)
TextAspects == {"title", "summary", "short_summary"}

\* OllamaProvider.generate: `return self.llm.predict(prompt)`, the reply as it is.
ProviderGenerate(reply) == reply

\* _generate_title, _generate_summary, _generate_short_summary:
\* `return await self.llm_provider.generate(prompt)`.
ReturnOfTextExtractor(reply) == ProviderGenerate(reply)

\* _generate_tags, lines 130-132: the last piece of the reply split on the
\* line break, split on the comma, every piece stripped.
ParseTags(reply) ==
    LET lines == Split(ProviderGenerate(reply), "\n")
        tags_text == lines[Len(lines)]
        parts == Split(tags_text, ",")
    IN  [i \in 1..Len(parts) |-> Strip(parts[i])]

InitParse ==
    /\ pc = [r \in Reqs |-> "idle"]
    /\ step = [r \in Reqs |-> 1]
    /\ pages = [r \in Reqs |-> <<>>]
    /\ vectorstore = [r \in Reqs |-> NoIndex]
    /\ retrieved = [r \in Reqs |-> [a \in Aspects |-> NoRetrieval]]
    /\ results = [r \in Reqs |-> [a \in Aspects |-> NoResult]]
    /\ genCalls = [r \in Reqs |-> [a \in Aspects |-> 0]]
    /\ embedCalls = [r \in Reqs |-> 0]
    /\ buildAttempted = [r \in Reqs |-> FALSE]
    /\ failedCalls = [r \in Reqs |-> {}]
    /\ raised = [r \in Reqs |-> NoException]
    /\ metadata = [r \in Reqs |-> NoMetadata]
    /\ backendStatus = [r \in Reqs |-> 0]
    /\ response = [r \in Reqs |-> NoResponse]
    /\ raw \in Strings
    /\ pAspect = ""
    /\ out = <<>>

\* A title, summary or short-summary extractor returns: the field is the reply.
ReturnText(a) ==
    /\ pAspect = ""
    /\ pAspect' = a
    /\ out' = <<ReturnOfTextExtractor(raw)>>
    /\ UNCHANGED raw
    /\ UNCHANGED pipeVars

\* The tags extractor returns the parsed list.
ReturnTags ==
    /\ pAspect = ""
    /\ pAspect' = "tags"
    /\ out' = ParseTags(raw)
    /\ UNCHANGED raw
    /\ UNCHANGED pipeVars

NextParse ==
    \/ \E a \in TextAspects : ReturnText(a)
    \/ ReturnTags

SpecParse == InitParse /\ [][NextParse]_vars

(***************************************************************************)
(* Claims                                                                  *)
(***************************************************************************)
GenFailed(r, a) == [stage |-> "generation", aspect |-> a] \in failedCalls[r]

RetrievalFailed(r, a) == [stage |-> "retrieval", aspect |-> a] \in failedCalls[r]

\* process_document has been called in request r.
ProcessDocumentCalled(r) ==
    pc[r] \in {"build", "query", "generate", "assemble", "forward"} \/ buildAttempted[r]

\* C1: in every run of process_document the index is fully built before the
\* first similarity query of any extractor: while an extractor is being called,
\* queried or generating, the run's index is built, and every query that has
\* returned was answered by a built index.
C1_IndexBuiltBeforeQuery ==
    \A r \in Reqs :
        /\ pc[r] \in {"query", "generate", "assemble", "forward"}
              => vectorstore[r].state = "built"
        /\ \A a \in Aspects :
              retrieved[r][a].state = "done" => retrieved[r][a].indexState = "built"

\* C1 witness: the tags query (the last one) has returned texts of a built index.
C1_Witness ==
    \E r \in Reqs :
        /\ retrieved[r]["tags"].state = "done"
        /\ retrieved[r]["tags"].indexState = "built"
        /\ Len(retrieved[r]["tags"].docs) > 0
        /\ retrieved[r]["title"].state = "done"

\* C2: if the retrieval or the generation call of any extractor raises, the
\* process_document call has failed (it raised, the request is over) and no
\* DocumentMetadata is returned; a returned DocumentMetadata comes from a run
\* in which no backend call failed and all four extractors returned a value.
C2_NoPartialMetadata ==
    \A r \in Reqs :
        /\ (\E a \in Aspects : GenFailed(r, a) \/ RetrievalFailed(r, a))
              => /\ pc[r] = "done"
                 /\ raised[r].type # "none"
                 /\ metadata[r].state = "none"
                 /\ response[r].body # "metadata"
        /\ metadata[r].state = "returned"
              => /\ failedCalls[r] = {}
                 /\ \A a \in Aspects : results[r][a].state = "value"
                 /\ metadata[r] = DocumentMetadata(results[r])

\* C2 witness: the title was extracted, the summary generation raised, the
\* request is over and there is no metadata.
C2_Witness ==
    \E r \in Reqs :
        /\ results[r]["title"].state = "value"
        /\ GenFailed(r, "summary")
        /\ pc[r] = "done"
        /\ metadata[r].state = "none"

\* C3: when process_document is called with no page, or with pages whose text
\* is all empty, it fails with EmptyDocument, no index build is attempted and no
\* embedding or generation backend call is made.
C3_EmptyDocument ==
    \A r \in Reqs :
        (ProcessDocumentCalled(r) /\ AllTextChunks(r, pages[r], 1) = <<>>)
            => /\ ~buildAttempted[r]
               /\ embedCalls[r] = 0
               /\ \A a \in Aspects : genCalls[r][a] = 0
               /\ pc[r] = "done" => raised[r].type = "EmptyDocument"

\* C4: when the generation call of an aspect fails, the failure surfaced to the
\* caller is a GenerationFailure that identifies that aspect.
C4_GenerationFailureTagged ==
    \A r \in Reqs : \A a \in Aspects :
        GenFailed(r, a)
            => /\ raised[r].type = "GenerationFailure"
               /\ raised[r].aspect = a

\* The tags parser as claimed: the items of the last non-empty line, split on
\* the comma, each trimmed, the empty ones dropped.
RECURSIVE DropEmpty(_)
DropEmpty(items) ==
    IF items = <<>> THEN <<>>
    ELSE IF Head(items) = <<>> THEN DropEmpty(Tail(items))
    ELSE <<Head(items)>> \o DropEmpty(Tail(items))

ClaimedTags(reply) ==
    LET lines == Split(reply, "\n")
        nonEmpty == {i \in 1..Len(lines) : lines[i] # <<>>}
    IN  IF nonEmpty = {} THEN <<>>
        ELSE LET last == CHOOSE i \in nonEmpty : \A j \in nonEmpty : j <= i
                 parts == Split(lines[last], ",")
             IN  DropEmpty([i \in 1..Len(parts) |-> Strip(parts[i])])

\* C5: for every reply the tags parser returns the items of the last non-empty
\* line, split on the comma, trimmed, empty items dropped; the returned list
\* holds no empty string.
C5_TagsParser ==
    pAspect = "tags"
        => /\ out = ClaimedTags(raw)
           /\ \A i \in 1..Len(out) : out[i] # <<>>

\* C6: for title, summary and short summary the field is the whole reply with
\* leading and trailing whitespace trimmed.
C6_TextFieldTrimmed ==
    pAspect \in TextAspects => out = <<Strip(raw)>>

\* C7: after the index is built the four extractors are launched together and
\* are in flight at the same time: whenever a generation call is awaited, all
\* four extractors have been launched.
C7_ExtractorsInParallel ==
    \A r \in Reqs : InFlight(r) # {} => Launched(r) = Aspects

\* C8: no backend call is retried: in a run the generation capability is invoked
\* at most once per aspect, exactly once per aspect in a run that returned
\* metadata, and exactly once for an aspect whose generation call failed.
C8_NoRetry ==
    \A r \in Reqs :
        /\ \A a \in Aspects : genCalls[r][a] <= 1
        /\ metadata[r].state = "returned" => \A a \in Aspects : genCalls[r][a] = 1
        /\ \A a \in Aspects : GenFailed(r, a) => genCalls[r][a] = 1

\* C8 witness: one run returned metadata after four generation calls, another
\* is over after a failed summary generation call.
C8_Witness ==
    \E r \in Reqs : \E q \in Reqs :
        /\ metadata[r].state = "returned"
        /\ \A a \in Aspects : genCalls[r][a] = 1
        /\ GenFailed(q, "summary")
        /\ pc[q] = "done"
        /\ genCalls[q]["summary"] = 1

\* C9: each request owns its index: every query of a request is answered by
\* the index built in that request from that request's chunks, and the index a
\* request holds is its own.
C9_OwnIndex ==
    \A r \in Reqs :
        /\ vectorstore[r].state = "built"
              => /\ vectorstore[r].owner = r
                 /\ vectorstore[r].docs = AllTextChunks(r, pages[r], 1)
        /\ \A a \in Aspects :
              retrieved[r][a].state = "done"
                  => /\ retrieved[r][a].index = r
                     /\ \A i \in 1..Len(retrieved[r][a].docs) :
                            retrieved[r][a].docs[i].doc = r

\* C9 witness: two requests in their pipelines at the same time, both with a
\* built index and with texts already retrieved.
C9_Witness ==
    \E r \in Reqs : \E q \in Reqs :
        /\ r # q
        /\ pc[r] = "generate"
        /\ pc[q] = "generate"
        /\ Len(retrieved[r]["title"].docs) > 0
        /\ Len(retrieved[q]["summary"].docs) > 0

\* C10: when the downstream service answers the forwarding POST with a status
\* s >= 400, the request fails with an HTTP error of that same status s, and
\* the metadata is returned only after a forward with a status below 400.
C10_BackendStatusPassedOn ==
    \A r \in Reqs :
        /\ (pc[r] = "done" /\ backendStatus[r] >= 400)
              => /\ response[r].status = backendStatus[r]
                 /\ response[r].body = "detail"
        /\ response[r].body = "metadata"
              => (backendStatus[r] > 0 /\ backendStatus[r] < 400)

====
